---- MODULE Spec2Model ----
(***************************************************************************)
(* Model of PinpointCampaignBuilder (src/pinpoint_campaign_builder.py)     *)
(* and s3_utility (src/s3_utility/s3_utility.py): the import-job poll,     *)
(* the base / dynamic segment bookkeeping and the application_details.json *)
(* store, the audience data and its csv file, the campaign request, the    *)
(* deletion of applications and the KPI values.                            *)
(* Remote calls of one handler are separate steps, so that the remote      *)
(* service can change between them.                                        *)
(***************************************************************************)
EXTENDS Integers, Sequences, FiniteSets, TLC

VARIABLES
    \* ---- the builder object
    built,                      \* a constructed builder exists
    application_id,             \* self.application_id
    s3_folder_path,             \* self.s3_folder_path
    s3_obj,                     \* bucket of self.s3_obj, None without s3_obj
    channel_type,               \* self.channel_type
    email_obj,                  \* the builder has the attribute email_obj
    sms_obj,                    \* the builder has the attribute sms_obj
    base_segment_id,            \* self.base_segment_id
    email_dynamic_segment_id,   \* self.email_dynamic_segment_id
    sms_dynamic_segment_id,     \* self.sms_dynamic_segment_id
    s3_bucket,                  \* self.s3_bucket
    csv_file_fields,            \* self.csv_file_fields
    email_data,                 \* self.email_data
    sms_data,                   \* self.sms_data
    segment_id_for_campaign,    \* self.segment_id_for_campaign
    email_custom_message,       \* self.email_obj.custom_message
    custom_email_message,       \* self.email_obj.custom_email_message
    sms_custom_message,         \* self.sms_obj.custom_message
    custom_sms_message,         \* self.sms_obj.custom_sms_message
    \* ---- the running call
    pc,                         \* position of the builder's thread
    caller,                     \* who called is_segment_imported
    job_id,                     \* job id polled by the running call
    wait_till,                  \* parameter of is_segment_imported
    time_out,                   \* local of is_segment_imported
    status,                     \* JobStatus of the last get_import_job response
    fetches,                    \* get_import_job calls issued by the running poll
    sleeps,                     \* time.sleep(5) calls made by the running poll
    failed_at,                  \* index of the first fetch that returned FAILED
    seen,                       \* statuses the running poll has fetched
    result,                     \* how the last is_segment_imported call ended
    op,                         \* the last top-level method called
    outcome,                    \* how the last top-level method ended
    \* ---- the remote service
    jobs,                       \* create_import_job requests received
    import_job_request,         \* ImportJobRequest of the last submission
    segments,                   \* segments of the application, newest first
    job_segment,                \* id of the segment created by job `jobs`
    apps,                       \* create_app requests received
    remote_channels,            \* channels enabled on each application
    campaigns,                  \* create_campaign requests received
    write_campaign_request,     \* WriteCampaignRequest of the last one received
    \* ---- the local file system
    csv_file,                   \* rows of the local csv file
    \* ---- the bucket
    s3,                         \* application_details.json of each folder
    s3_csv,                     \* path and rows of the csv object uploaded last
    saved,                      \* record, path and builder of the last save requested
    hydrate,                    \* what the last constructor's load found
    \* ---- the applications of the account
    default_application_id,     \* the list object that is the default of
                                \* delete_application's parameter application_id
    delete_app_requests,        \* ids of the delete_app requests of the last
                                \* delete_application call, in order
    deleted_apps,               \* applications the remote has deleted
    \* ---- return values and the KPIs
    retval,                     \* what the last create_dynamic_segment returned
    response_rows,              \* Rows the remote reports for a KPI
    kpi_value                   \* what the last get_kpi_value returned

\* The audience data, its csv file and the uploaded csv object.
audienceVars == << csv_file_fields, email_data, sms_data, csv_file, s3_csv >>

\* The campaign: the resolved segment, the channel objects' messages and
\* the requests the remote has received.
campaignVars == << segment_id_for_campaign, email_custom_message,
                   custom_email_message, sms_custom_message, custom_sms_message,
                   campaigns, write_campaign_request >>

\* The deletions of applications.
deleteVars == << default_application_id, delete_app_requests, deleted_apps >>

\* The KPI rows of the remote and the value computed from them.
kpiVars == << response_rows, kpi_value >>

\* What every handler but delete_application, create_dynamic_segment and
\* get_kpi_value leaves alone.
restVars == << deleteVars, kpiVars, retval >>

\* What the import, the poll and the segment handlers leave alone, the
\* value returned by create_dynamic_segment apart.
keptVars == << built, application_id, s3_folder_path, s3_obj, channel_type,
               email_obj, sms_obj, apps, remote_channels, s3, saved, hydrate,
               audienceVars, campaignVars, deleteVars, kpiVars >>

\* What the import and the poll leave alone.
storeVars == << keptVars, retval >>

vars == << storeVars,
           base_segment_id, email_dynamic_segment_id, sms_dynamic_segment_id,
           s3_bucket, pc, caller, job_id, wait_till, time_out, status,
           fetches, sleeps, failed_at, seen, result, op, outcome, jobs,
           import_job_request, segments, job_segment >>

----------------------------------------------------------------------------
\* Bounds of the model
MaxSegments == 3
MaxJobs == 2
MaxApps == 1
MaxElapsed == 110
MaxCampaigns == 2
MaxRows == 2

\* Program constants
DefaultWaitTill == 100
SleepInterval == 5

None == "None"
\* A missing url, path or request: like None, falsy in the handlers' tests.
Absent == << >>

\* Identifier the remote gives the n-th application it creates.
AppId(n) == "app" \o ToString(n)
Apps == { AppId(n) : n \in 1..MaxApps }

\* Folders of the bucket that hold an application_details.json.
Folders == Apps \cup {"dir"}

\* Identifier the remote gives the n-th segment of the application.
SegmentId(n) == "seg" \o ToString(n)
Statuses == {"PENDING", "IN_PROGRESS", "COMPLETED", "FAILED"}
NonTerminal == {"PENDING", "IN_PROGRESS"}
WaitTills == {3, 5, 10, 12, DefaultWaitTill}
Channels == {"EMAIL", "SMS", "PUSH"}
BucketNames == {None, "bk"}


----------------------------------------------------------------------------
\* Strings the handlers test with startswith / endswith are token sequences.
startswith(u, tok) == Len(u) > 0 /\ u[1] = tok
endswith(u, tok) == Len(u) > 0 /\ u[Len(u)] = tok

pinpoint_acc_arn == "role"
file_name == << "pinpoint_details", ".csv" >>
import_segment_name == "Base Segment"

CsvUrls == { Absent,
             << "s3://", "bk", "/", "f", ".csv" >>,
             << "s3://", "bk", "/", "f", ".txt" >>,
             << "http://", "bk", "/", "f", ".csv" >> }
CsvPaths == { Absent, << "dir", "/", "f", ".csv" >>, << "dir", "/", "f", ".txt" >> }

\* Caller-supplied ImportJobRequest values: one naming a new segment, one
\* naming an existing segment.
CustomImportRequests ==
    { [ DefineSegment |-> TRUE, Format |-> "CSV", RoleArn |-> pinpoint_acc_arn,
        S3Url |-> << "s3://", "bk", "/", "own", ".csv" >>,
        SegmentName |-> "Own Segment" ],
      [ DefineSegment |-> TRUE, Format |-> "CSV", RoleArn |-> pinpoint_acc_arn,
        S3Url |-> << "s3://", "bk", "/", "own", ".csv" >>,
        SegmentId |-> SegmentId(1) ] }

\* The bucket after `if not self.s3_bucket and bucket_name`.
BucketAfter(bucket_name) ==
    IF s3_bucket = None /\ bucket_name # None THEN bucket_name ELSE s3_bucket

\* The three branches that resolve csv_file_url.
CsvFileUrl(csv_file_s3_url, s3_csv_file_path, bucket) ==
    IF csv_file_s3_url # Absent THEN csv_file_s3_url
    ELSE IF bucket # None /\ s3_csv_file_path # Absent
         THEN << "s3://", bucket, "/" >> \o s3_csv_file_path
    ELSE IF bucket # None
         THEN << "s3://", bucket, "/", application_id, "/" >> \o file_name
    ELSE Absent

\* CsvAssertsPass without the assert on the path.
CsvAssertsPass_NoPathAssert(csv_file_s3_url, s3_csv_file_path, bucket_name) ==
    /\ s3_bucket # None \/ bucket_name # None \/ csv_file_s3_url # Absent
    /\ csv_file_s3_url # Absent =>
          endswith(csv_file_s3_url, ".csv") /\ startswith(csv_file_s3_url, "s3://")

\* The asserts passed before the request is built.
CsvAssertsPass(csv_file_s3_url, s3_csv_file_path, bucket_name) ==
    /\ s3_bucket # None \/ bucket_name # None \/ csv_file_s3_url # Absent
    /\ csv_file_s3_url # Absent =>
          endswith(csv_file_s3_url, ".csv") /\ startswith(csv_file_s3_url, "s3://")
    /\ (csv_file_s3_url = Absent /\ BucketAfter(bucket_name) # None
          /\ s3_csv_file_path # Absent) => endswith(s3_csv_file_path, ".csv")

\* The default ImportJobRequest with SegmentName left in place in update
\* mode.
DefaultImportRequest_KeepsName(url, update_base_segment) ==
    IF update_base_segment
    THEN [ DefineSegment |-> TRUE, Format |-> "CSV", RegisterEndpoints |-> TRUE,
           RoleArn |-> pinpoint_acc_arn, S3Url |-> url,
           SegmentId |-> base_segment_id, SegmentName |-> import_segment_name ]
    ELSE [ DefineSegment |-> TRUE, Format |-> "CSV", RegisterEndpoints |-> TRUE,
           RoleArn |-> pinpoint_acc_arn, S3Url |-> url,
           SegmentName |-> import_segment_name ]

\* The default ImportJobRequest, in create mode and in update mode.
DefaultImportRequest(url, update_base_segment) ==
    IF update_base_segment
    THEN [ DefineSegment |-> TRUE, Format |-> "CSV", RegisterEndpoints |-> TRUE,
           RoleArn |-> pinpoint_acc_arn, S3Url |-> url,
           SegmentId |-> base_segment_id ]
    ELSE [ DefineSegment |-> TRUE, Format |-> "CSV", RegisterEndpoints |-> TRUE,
           RoleArn |-> pinpoint_acc_arn, S3Url |-> url,
           SegmentName |-> import_segment_name ]

\* A create-mode job that has been submitted and has not yet created its
\* segment holds one place of the bounded segment list, and a running
\* create_all_segments holds the places of its dynamic segments.
Pending ==
    (IF pc \in {"fetch", "loop"} /\ caller = "create" /\ job_segment = None
     THEN 1 ELSE 0)
    + (IF op = "create_all_segments" /\ pc \in {"fetch", "loop", "lookup", "email"}
       THEN 2
       ELSE IF pc = "sms" THEN 1 ELSE 0)

\* Start of a poll that goes on with the job id of the poll before it.
EnterPoll_StaleJob(who, job, w) ==
    /\ pc' = "fetch"
    /\ caller' = who
    /\ job_id' = job_id
    /\ wait_till' = w
    /\ time_out' = 0
    /\ status' = None
    /\ fetches' = 0
    /\ sleeps' = 0
    /\ failed_at' = 0
    /\ seen' = {}
    /\ result' = "none"

\* Start of a poll: time_out = 0 and nothing fetched yet.
EnterPoll(who, job, w) ==
    /\ pc' = "fetch"
    /\ caller' = who
    /\ job_id' = job
    /\ wait_till' = w
    /\ time_out' = 0
    /\ status' = None
    /\ fetches' = 0
    /\ sleeps' = 0
    /\ failed_at' = 0
    /\ seen' = {}
    /\ result' = "none"

FrameUnchanged ==
    UNCHANGED << caller, job_id, wait_till, time_out, status, fetches,
                 sleeps, failed_at, seen, result >>

\* import_data_into_pinpoint up to and including create_import_job.
import_data_into_pinpoint(csv_file_s3_url, s3_csv_file_path, bucket_name, request, update_base_segment) ==
    /\ UNCHANGED storeVars
    /\ pc = "idle"
    /\ op' = "import_data_into_pinpoint"
    /\ UNCHANGED << base_segment_id, email_dynamic_segment_id,
                    sms_dynamic_segment_id, segments >>
    /\ IF ~CsvAssertsPass(csv_file_s3_url, s3_csv_file_path, bucket_name)
       THEN /\ outcome' = "AssertionError"
            /\ s3_bucket' = BucketAfter(bucket_name)
            /\ FrameUnchanged
            /\ UNCHANGED << pc, jobs, import_job_request, job_segment >>
       ELSE /\ s3_bucket' = BucketAfter(bucket_name)
            /\ IF request = Absent /\ update_base_segment /\ base_segment_id = None
               THEN /\ outcome' = "AssertionError"
                    /\ FrameUnchanged
                    /\ UNCHANGED << pc, jobs, import_job_request, job_segment >>
               ELSE LET url == CsvFileUrl(csv_file_s3_url, s3_csv_file_path,
                                          BucketAfter(bucket_name))
                        req == IF request = Absent
                               THEN DefaultImportRequest(url, update_base_segment)
                               ELSE request
                        create == "SegmentName" \in DOMAIN req
                    IN  /\ jobs < MaxJobs
                        /\ create => Len(segments) < MaxSegments
                        /\ jobs' = jobs + 1
                        /\ import_job_request' = req
                        /\ job_segment' = None
                        /\ outcome' = "running"
                        /\ EnterPoll(IF create THEN "create" ELSE "update",
                                     jobs + 1, DefaultWaitTill)

\* is_segment_imported called by the user of the builder, for the job
\* submitted last.
is_segment_imported(job, w) ==
    /\ UNCHANGED storeVars
    /\ pc = "idle"
    /\ op' = "is_segment_imported"
    /\ outcome' = "running"
    /\ EnterPoll("direct", job, w)
    /\ UNCHANGED << base_segment_id, email_dynamic_segment_id,
                    sms_dynamic_segment_id, s3_bucket, jobs, import_job_request,
                    segments, job_segment >>

----------------------------------------------------------------------------
\* The poll of is_segment_imported.

\* time_out += 5
Elapsed(t) == t + SleepInterval

\* `while JobStatus != 'COMPLETED'` as tested after the first fetch.
FirstOutcome(st) == IF st # "COMPLETED" THEN "loop" ELSE "True"

\* LoopOutcome with the time_out test made one sleep early.
LoopOutcome_EarlyTimeout(st, t, w) ==
    IF st = "FAILED" THEN "ImportFailed"
    ELSE IF t + SleepInterval >= w THEN "TimedOut"
    ELSE IF st # "COMPLETED" THEN "loop"
    ELSE "True"

\* LoopOutcome without the time_out test.
LoopOutcome_NoTimeout(st, t, w) ==
    IF st = "FAILED" THEN "ImportFailed"
    ELSE IF st # "COMPLETED" THEN "loop"
    ELSE "True"

\* The body of the loop after its fetch, then the loop condition: the FAILED
\* test, the time_out test, the COMPLETED test, in that order.
LoopOutcome(st, t, w) ==
    IF st = "FAILED" THEN "ImportFailed"
    ELSE IF t >= w THEN "TimedOut"
    ELSE IF st # "COMPLETED" THEN "loop"
    ELSE "True"

\* The remote side of get_import_job: a job that names a new segment has
\* created that segment, in front of the list, when it reports COMPLETED.
SegmentsAfterFetch(st) ==
    IF caller = "create" /\ st = "COMPLETED" /\ job_segment = None
    THEN << [ id |-> SegmentId(Len(segments) + 1), kind |-> "IMPORT",
              source |-> None, job |-> job_id ] >> \o segments
    ELSE segments

JobSegmentAfterFetch(st) ==
    IF caller = "create" /\ st = "COMPLETED" /\ job_segment = None
    THEN SegmentId(Len(segments) + 1)
    ELSE job_segment

\* Finish with the exception of a failed poll caught by the caller.
Finish_SwallowsFailure(res) ==
    /\ result' = res
    /\ IF res = "loop"
       THEN pc' = "loop" /\ outcome' = outcome
       ELSE IF res = "True" /\ caller = "create"
       THEN pc' = "lookup" /\ outcome' = outcome
       ELSE pc' = "idle" /\ outcome' = "returned"

\* How is_segment_imported ends, and where its caller goes on.
Finish(res) ==
    /\ result' = res
    /\ IF res = "loop"
       THEN pc' = "loop" /\ outcome' = outcome
       ELSE IF res = "True"
       THEN IF caller = "create"
            THEN pc' = "lookup" /\ outcome' = outcome
            ELSE pc' = "idle" /\ outcome' = "returned"
       ELSE pc' = "idle" /\ outcome' = "Exception"

\* time_out = 0 and the first get_import_job, which reports status st.
first_fetch(st) ==
    /\ UNCHANGED storeVars
    /\ pc = "fetch"
    /\ status' = st
    /\ fetches' = 1
    /\ failed_at' = IF st = "FAILED" THEN 1 ELSE 0
    /\ seen' = {st}
    /\ segments' = SegmentsAfterFetch(st)
    /\ job_segment' = JobSegmentAfterFetch(st)
    /\ Finish(FirstOutcome(st))
    /\ UNCHANGED << base_segment_id, email_dynamic_segment_id,
                    sms_dynamic_segment_id, s3_bucket, caller, job_id, wait_till,
                    time_out, sleeps, op, jobs, import_job_request >>

\* One round of the while loop: count, sleep, fetch (the job reports
\* status st), test.
poll_loop(st) ==
    /\ UNCHANGED storeVars
    /\ pc = "loop"
    /\ Elapsed(time_out) <= MaxElapsed
    /\ time_out' = Elapsed(time_out)
    /\ sleeps' = sleeps + 1
    /\ status' = st
    /\ fetches' = fetches + 1
    /\ failed_at' = IF failed_at = 0 /\ st = "FAILED" THEN fetches + 1 ELSE failed_at
    /\ seen' = seen \cup {st}
    /\ segments' = SegmentsAfterFetch(st)
    /\ job_segment' = JobSegmentAfterFetch(st)
    /\ Finish(LoopOutcome(st, Elapsed(time_out), wait_till))
    /\ UNCHANGED << base_segment_id, email_dynamic_segment_id,
                    sms_dynamic_segment_id, s3_bucket, caller, job_id, wait_till,
                    op, jobs, import_job_request >>

\* Where the builder's thread goes on when import_data_into_pinpoint
\* returns: to its caller create_all_segments, or to the user.
AfterImport == IF op = "create_all_segments" THEN "email" ELSE "idle"

\* get_segments_lookup taking the last item of the response.
get_segments_lookup_LastItem ==
    /\ UNCHANGED storeVars
    /\ pc = "lookup"
    /\ base_segment_id' = segments[Len(segments)].id
    /\ pc' = AfterImport
    /\ outcome' = IF AfterImport = "idle" THEN "returned" ELSE outcome
    /\ UNCHANGED << email_dynamic_segment_id, sms_dynamic_segment_id, s3_bucket,
                    caller, job_id, wait_till, time_out, status, fetches, sleeps,
                    failed_at, seen, result, op, jobs, import_job_request,
                    segments, job_segment >>

\* The get_segments call of a create-mode import and the assignment of
\* Item[0]['Id'] to base_segment_id.
get_segments_lookup ==
    /\ UNCHANGED storeVars
    /\ pc = "lookup"
    /\ base_segment_id' = segments[1].id
    /\ pc' = AfterImport
    /\ outcome' = IF AfterImport = "idle" THEN "returned" ELSE outcome
    /\ UNCHANGED << email_dynamic_segment_id, sms_dynamic_segment_id, s3_bucket,
                    caller, job_id, wait_till, time_out, status, fetches, sleeps,
                    failed_at, seen, result, op, jobs, import_job_request,
                    segments, job_segment >>

\* An import job submitted to the same application by another builder
\* completes and its segment enters the list.
other_import_completes ==
    /\ UNCHANGED storeVars
    /\ Len(segments) + Pending < MaxSegments
    /\ segments' = << [ id |-> SegmentId(Len(segments) + 1), kind |-> "IMPORT",
                        source |-> None, job |-> 0 ] >> \o segments
    /\ UNCHANGED << base_segment_id, email_dynamic_segment_id,
                    sms_dynamic_segment_id, s3_bucket, pc, caller, job_id,
                    wait_till, time_out, status, fetches, sleeps, failed_at,
                    seen, result, op, outcome, jobs, import_job_request,
                    job_segment >>

----------------------------------------------------------------------------
\* Caller-supplied WriteSegmentRequest values, by their source segment.
CustomWriteRequests == { [ Name |-> "Own Dynamic Segment", SourceId |-> SegmentId(1) ] }

\* The WriteSegmentRequest built from write_dynamic_segment_request.json.
DefaultWriteRequest(channel) ==
    [ Name |-> << channel, " Dynamic Segment" >>, SourceId |-> base_segment_id ]

\* create_dynamic_segment without its channel assert.
DeriveAssertsPass_AnyChannel(channel) == channel \in Channels

\* What create_dynamic_segment does before it builds a request: the channel
\* assert is the only test.
DeriveAssertsPass(channel) == channel \in {"EMAIL", "SMS"}

\* The response of create_segment for the segment with identifier id.
SegmentResponse(id) == [ SegmentResponse |-> [ Id |-> id ] ]

\* `return response if return_full_response else ''`: the empty string is
\* Absent.
DeriveReturn(response, return_full_response) ==
    IF return_full_response THEN response ELSE Absent

create_dynamic_segment(channel, write_segment_request, return_full_response) ==
    /\ UNCHANGED keptVars
    /\ pc = "idle"
    /\ op' = "create_dynamic_segment"
    /\ IF ~DeriveAssertsPass(channel)
       THEN /\ outcome' = "AssertionError"
            /\ UNCHANGED << email_dynamic_segment_id, sms_dynamic_segment_id,
                            segments, retval >>
       ELSE LET write_request == IF write_segment_request = Absent
                                 THEN DefaultWriteRequest(channel)
                                 ELSE write_segment_request
                new == SegmentId(Len(segments) + 1)
            IN  /\ Len(segments) < MaxSegments
                /\ segments' = << [ id |-> new, kind |-> "DYNAMIC",
                                    source |-> write_request.SourceId,
                                    job |-> 0 ] >> \o segments
                /\ IF channel = "EMAIL"
                   THEN /\ email_dynamic_segment_id' = new
                        /\ UNCHANGED sms_dynamic_segment_id
                   ELSE /\ sms_dynamic_segment_id' = new
                        /\ UNCHANGED email_dynamic_segment_id
                /\ retval' = DeriveReturn(SegmentResponse(new),
                                          return_full_response)
                /\ outcome' = "returned"
    /\ UNCHANGED << base_segment_id, s3_bucket, pc, jobs, import_job_request,
                    job_segment >>
    /\ FrameUnchanged

----------------------------------------------------------------------------
\* A builder constructed without csv_file_fields, email_data and sms_data;
\* no local csv file and no uploaded csv object.
NoAudience ==
    /\ csv_file_fields = Absent
    /\ email_data = Absent
    /\ sms_data = Absent
    /\ csv_file = Absent
    /\ s3_csv = Absent

\* segment_id_for_campaign = None, channel objects as Email() and Sms()
\* construct them, and no campaign on the remote.
NoCampaign ==
    /\ segment_id_for_campaign = None
    /\ email_custom_message = Absent
    /\ custom_email_message = Absent
    /\ sms_custom_message = Absent
    /\ custom_sms_message = Absent
    /\ campaigns = 0
    /\ write_campaign_request = Absent

\* No delete_application call yet: the default list is the empty list of
\* the def statement; nothing returned yet; the remote has no KPI rows.
NoRest ==
    /\ default_application_id = << >>
    /\ delete_app_requests = << >>
    /\ deleted_apps = {}
    /\ retval = Absent
    /\ response_rows = << >>
    /\ kpi_value = Absent

\* A builder constructed for application app1 with both channels and no
\* segment yet.
InitWith(bucket) ==
    /\ built = TRUE
    /\ application_id = AppId(1)
    /\ s3_folder_path = AppId(1)
    /\ s3_bucket = bucket
    /\ s3_obj = s3_bucket
    /\ channel_type = << "EMAIL", "SMS" >>
    /\ email_obj = TRUE
    /\ sms_obj = TRUE
    /\ apps = 1
    /\ remote_channels = [ a \in Apps |-> IF a = AppId(1) THEN {"EMAIL", "SMS"} ELSE {} ]
    /\ s3 = [ f \in Folders |-> Absent ]
    /\ saved = Absent
    /\ hydrate = "no"
    /\ base_segment_id = None
    /\ email_dynamic_segment_id = None
    /\ sms_dynamic_segment_id = None
    /\ pc = "idle"
    /\ caller = "none"
    /\ job_id = 0
    /\ wait_till = DefaultWaitTill
    /\ time_out = 0
    /\ status = None
    /\ fetches = 0
    /\ sleeps = 0
    /\ failed_at = 0
    /\ seen = {}
    /\ result = "none"
    /\ op = "none"
    /\ outcome = "none"
    /\ jobs = 0
    /\ import_job_request = Absent
    /\ segments = << >>
    /\ job_segment = None
    /\ NoAudience
    /\ NoCampaign
    /\ NoRest

Init == InitWith(None)

\* Inputs of an import that passes its asserts with a csv url.
SegUrls == { << "s3://", "bk", "/", "f", ".csv" >> }

\* The poll, called by the user and by imports in create and update mode,
\* with every status at every fetch.
Next ==
    \/ \E u \in SegUrls, r \in {Absent} \cup CustomImportRequests, upd \in BOOLEAN :
          import_data_into_pinpoint(u, Absent, None, r, upd)
    \/ \E w \in WaitTills :
          is_segment_imported(jobs, w)
    \/ \E st \in Statuses : first_fetch(st)
    \/ \E st \in Statuses : poll_loop(st)
    \/ get_segments_lookup

Spec == Init /\ [][Next]_vars

\* The builder's thread keeps running: a started call takes its next step.
FairSpec ==
    /\ Spec
    /\ WF_vars(\E st \in Statuses : first_fetch(st))
    /\ WF_vars(\E st \in Statuses : poll_loop(st))
    /\ WF_vars(get_segments_lookup)

\* PENDING and IN_PROGRESS take the same branches of the poll; Spec draws
\* both, elsewhere one of them stands for a job that has not ended.
SegStatuses == {"IN_PROGRESS", "COMPLETED", "FAILED"}

\* The import with every combination of its arguments, for a builder with
\* or without a bucket.
InitImport == \E b \in BucketNames : InitWith(b)

NextImport ==
    \/ \E u \in CsvUrls, p \in CsvPaths, b \in BucketNames,
          r \in {Absent} \cup CustomImportRequests, upd \in BOOLEAN :
          import_data_into_pinpoint(u, p, b, r, upd)
    \/ \E st \in SegStatuses : first_fetch(st)
    \/ \E st \in SegStatuses : poll_loop(st)
    \/ get_segments_lookup

SpecImport == InitImport /\ [][NextImport]_vars

\* The segments of one application: imports of this builder from a csv url,
\* imports of another builder, and derived segments.
NextSeg ==
    \/ \E u \in SegUrls, r \in {Absent} \cup CustomImportRequests, upd \in BOOLEAN :
          import_data_into_pinpoint(u, Absent, None, r, upd)
    \/ \E st \in SegStatuses : first_fetch(st)
    \/ \E st \in SegStatuses : poll_loop(st)
    \/ get_segments_lookup
    \/ other_import_completes
    \/ \E c \in Channels, r \in {Absent} \cup CustomWriteRequests :
          create_dynamic_segment(c, r, FALSE)

SpecSeg == Init /\ [][NextSeg]_vars

----------------------------------------------------------------------------
\* The bucket and application_details.json

\* The running call and the import jobs and segments of the remote.
callVars == << pc, caller, job_id, wait_till, time_out, status, fetches, sleeps,
               failed_at, seen, result, jobs, import_job_request, segments,
               job_segment >>

\* What the handlers of the stored record leave alone.
pollVars == << callVars, restVars, audienceVars, campaignVars >>

\* Methods the class s3_utility defines.
s3_utility_methods ==
    { "get_json_file", "put_json_to_s3", "upload_file_to_s3", "download_file",
      "is_file_present" }

\* json.dumps and json.loads of a mapping from field names to ids or None.
JsonValue(v) == IF v = None THEN [ type |-> "null" ]
                ELSE [ type |-> "string", text |-> v ]
PyValue(j) == IF j.type = "null" THEN None ELSE j.text
dumps(d) == [ k \in DOMAIN d |-> JsonValue(d[k]) ]
loads(t) == [ k \in DOMAIN t |-> PyValue(t[k]) ]

\* The bucket after s3_utility.put_json_to_s3(key, file_data).
put_json_to_s3(folder, file_data) == [ s3 EXCEPT ![folder] = dumps(file_data) ]

\* s3_utility.get_json_file: the parsed object, or the Exception raised
\* when get_object fails.
get_json_file(folder) ==
    IF s3[folder] = Absent
    THEN [ raised |-> TRUE, data |-> Absent ]
    ELSE [ raised |-> FALSE, data |-> loads(s3[folder]) ]

\* `d[key] if key in d else None`
FieldOr(d, key) == IF key \in DOMAIN d THEN d[key] ELSE None

\* data_json of update_pinpoint_data_to_s3.
data_json ==
    [ base_segment_id |-> base_segment_id,
      email_dynamic_segment_id |-> email_dynamic_segment_id,
      sms_dynamic_segment_id |-> sms_dynamic_segment_id ]

\* The method update_pinpoint_data_to_s3 calls on self.s3_obj.
SaveMethod == "upload_json_to_s3"

update_pinpoint_data_to_s3 ==
    /\ pc = "idle" /\ built
    /\ op' = "update_pinpoint_data_to_s3"
    /\ IF s3_bucket = None
       THEN /\ outcome' = "AssertionError"
            /\ UNCHANGED << s3, saved >>
       ELSE /\ saved' = [ folder |-> s3_folder_path, rec |-> data_json,
                           by |-> "self" ]
            /\ IF s3_obj = None \/ SaveMethod \notin s3_utility_methods
               THEN /\ outcome' = "AttributeError"
                    /\ UNCHANGED s3
               ELSE /\ s3' = put_json_to_s3(s3_folder_path, data_json)
                    /\ outcome' = "returned"
    /\ UNCHANGED << built, application_id, s3_folder_path, s3_obj, channel_type,
                    email_obj, sms_obj, apps, remote_channels, hydrate,
                    base_segment_id, email_dynamic_segment_id,
                    sms_dynamic_segment_id, s3_bucket, pollVars >>

\* The ids held by another builder of the same application.
OtherDataJson ==
    { [ base_segment_id |-> SegmentId(2), email_dynamic_segment_id |-> None,
        sms_dynamic_segment_id |-> SegmentId(1) ] }

\* update_pinpoint_data_to_s3 called on another builder, which holds the
\* bucket and the folder of this one and the ids other_data_json.
other_update_pinpoint_data_to_s3(other_data_json) ==
    /\ built
    /\ s3_bucket # None
    /\ saved' = [ folder |-> s3_folder_path, rec |-> other_data_json,
                  by |-> "other" ]
    /\ IF SaveMethod \notin s3_utility_methods
       THEN UNCHANGED s3
       ELSE s3' = put_json_to_s3(s3_folder_path, other_data_json)
    /\ UNCHANGED << built, application_id, s3_folder_path, s3_obj, channel_type,
                    email_obj, sms_obj, apps, remote_channels, hydrate,
                    base_segment_id, email_dynamic_segment_id,
                    sms_dynamic_segment_id, s3_bucket, op, outcome, pollVars >>

fetch_pinpoint_data_from_s3 ==
    /\ pc = "idle" /\ built
    /\ op' = "fetch_pinpoint_data_from_s3"
    /\ IF s3_bucket = None
       THEN /\ outcome' = "AssertionError"
            /\ UNCHANGED << base_segment_id, email_dynamic_segment_id,
                            sms_dynamic_segment_id >>
       ELSE IF s3_obj = None
       THEN /\ outcome' = "AttributeError"
            /\ UNCHANGED << base_segment_id, email_dynamic_segment_id,
                            sms_dynamic_segment_id >>
       ELSE LET response == get_json_file(s3_folder_path)
                application_details == response.data
            IN  IF response.raised
                THEN /\ outcome' = "Exception"
                     /\ UNCHANGED << base_segment_id, email_dynamic_segment_id,
                                     sms_dynamic_segment_id >>
                ELSE /\ base_segment_id' =
                            FieldOr(application_details, "base_segment_id")
                     /\ email_dynamic_segment_id' =
                            FieldOr(application_details, "email_dynamic_segment_id")
                     /\ sms_dynamic_segment_id' =
                            FieldOr(application_details, "sms_dynamic_segment_id")
                     /\ outcome' = "returned"
    /\ UNCHANGED << built, application_id, s3_folder_path, s3_obj, channel_type,
                    email_obj, sms_obj, apps, remote_channels, s3, saved, hydrate,
                    s3_bucket, pollVars >>

\* Records a user of the builder writes with self.s3_obj.put_json_to_s3.
FileData ==
    { [ base_segment_id |-> SegmentId(1), email_dynamic_segment_id |-> SegmentId(2),
        sms_dynamic_segment_id |-> SegmentId(3) ],
      [ base_segment_id |-> None, email_dynamic_segment_id |-> None,
        sms_dynamic_segment_id |-> None ],
      [ base_segment_id |-> SegmentId(1) ] }

\* put_json_to_s3 called on the builder's s3_obj with the path of
\* application_details.json: another writer of the stored record.
user_put_json_to_s3(file_data) ==
    /\ pc = "idle" /\ built
    /\ s3_obj # None
    /\ op' = "put_json_to_s3"
    /\ s3' = put_json_to_s3(s3_folder_path, file_data)
    /\ saved' = Absent
    /\ outcome' = "returned"
    /\ UNCHANGED << built, application_id, s3_folder_path, s3_obj, channel_type,
                    email_obj, sms_obj, apps, remote_channels, hydrate,
                    base_segment_id, email_dynamic_segment_id,
                    sms_dynamic_segment_id, s3_bucket, pollVars >>

s3_bucket_details(bucket, folder) ==
    /\ pc = "idle" /\ built
    /\ op' = "s3_bucket_details"
    /\ s3_bucket' = bucket
    /\ s3_obj' = bucket
    /\ s3_folder_path' = IF folder # None THEN folder ELSE application_id
    /\ outcome' = "returned"
    /\ UNCHANGED << built, application_id, channel_type, email_obj, sms_obj, apps,
                    remote_channels, s3, saved, hydrate, base_segment_id,
                    email_dynamic_segment_id, sms_dynamic_segment_id, pollVars >>

----------------------------------------------------------------------------
\* The constructor

\* Arguments of the constructor.
RoleArns == { None, "role" }
SesArns == { None, "ses" }
ChannelTypeArgs == { << >>, << "EMAIL" >>, << "SMS" >>, << "EMAIL", "SMS" >> }
GivenIds ==
    { [ base |-> None, email |-> None, sms |-> None ],
      [ base |-> SegmentId(1), email |-> SegmentId(2), sms |-> SegmentId(3) ] }

\* csv_file_fields, email_data and sms_data left at their default None.
NoGivenAudience == [ fields |-> Absent, email |-> Absent, sms |-> Absent ]

Range(q) == { q[i] : i \in 1..Len(q) }

\* The keys of response['ChannelsResponse']['Channels'] as a list.
ChannelList(S) ==
    (IF "EMAIL" \in S THEN << "EMAIL" >> ELSE << >>)
        \o (IF "SMS" \in S THEN << "SMS" >> ELSE << >>)

\* A constructor that raises leaves no builder.
NoBuilder(error) ==
    /\ built' = FALSE
    /\ outcome' = error
    /\ application_id' = None
    /\ s3_folder_path' = None
    /\ s3_bucket' = None
    /\ s3_obj' = None
    /\ channel_type' = << >>
    /\ email_obj' = FALSE
    /\ sms_obj' = FALSE
    /\ base_segment_id' = None
    /\ email_dynamic_segment_id' = None
    /\ sms_dynamic_segment_id' = None
    /\ csv_file_fields' = Absent
    /\ email_data' = Absent
    /\ sms_data' = Absent

__init__(s3_bucket_name, folder, ses_identity_arn, pinpoint_access_role_arn, channels, ids, app, audience, application_exists) ==
    /\ pc = "idle"
    /\ op' = "__init__"
    /\ UNCHANGED << s3, saved, callVars, restVars, csv_file, s3_csv, campaigns,
                    write_campaign_request >>
    /\ segment_id_for_campaign' = None
    /\ email_custom_message' = Absent
    /\ custom_email_message' = Absent
    /\ sms_custom_message' = Absent
    /\ custom_sms_message' = Absent
    /\ IF pinpoint_access_role_arn = None
       THEN /\ NoBuilder("AssertionError")
            /\ hydrate' = "no"
            /\ UNCHANGED << apps, remote_channels >>
       ELSE
       LET id == IF app # None THEN app ELSE AppId(apps + 1)
           path == IF folder # None THEN folder ELSE id
           hydrating == application_exists /\ s3_bucket_name # None
           response == get_json_file(path)
           found == IF application_exists /\ channels = << >>
                    THEN ChannelList(remote_channels[id]) ELSE channels
           email == "EMAIL" \in Range(channels)
           sms == "SMS" \in Range(channels)
           update == IF application_exists THEN {}
                     ELSE IF email /\ ses_identity_arn = None THEN {}
                     ELSE Range(channels)
       IN  /\ app = None => apps < MaxApps
           /\ apps' = IF app = None THEN apps + 1 ELSE apps
           /\ hydrate' = IF ~hydrating THEN "no"
                         ELSE IF response.raised THEN "missing" ELSE "found"
           /\ IF hydrating /\ response.raised
              THEN /\ NoBuilder("Exception")
                   /\ UNCHANGED remote_channels
              ELSE IF found = << >>
              THEN /\ NoBuilder("AssertionError")
                   /\ UNCHANGED remote_channels
              ELSE IF email /\ ses_identity_arn = None
              THEN /\ NoBuilder("AssertionError")
                   /\ UNCHANGED remote_channels
              ELSE /\ built' = TRUE
                   /\ outcome' = "returned"
                   /\ application_id' = id
                   /\ s3_folder_path' = path
                   /\ s3_bucket' = s3_bucket_name
                   /\ s3_obj' = s3_bucket_name
                   /\ channel_type' = found
                   /\ email_obj' = email
                   /\ sms_obj' = sms
                   /\ csv_file_fields' = audience.fields
                   /\ email_data' = audience.email
                   /\ sms_data' = audience.sms
                   /\ base_segment_id' =
                        IF hydrating THEN FieldOr(response.data, "base_segment_id")
                        ELSE ids.base
                   /\ email_dynamic_segment_id' =
                        IF hydrating
                        THEN FieldOr(response.data, "email_dynamic_segment_id")
                        ELSE ids.email
                   /\ sms_dynamic_segment_id' =
                        IF hydrating
                        THEN FieldOr(response.data, "sms_dynamic_segment_id")
                        ELSE ids.sms
                   /\ remote_channels' =
                        [ remote_channels EXCEPT ![id] = @ \cup update ]

\* Before the first construction: no builder, no application, an empty
\* bucket.
InitStore ==
    /\ built = FALSE
    /\ application_id = None
    /\ s3_folder_path = None
    /\ s3_bucket = None
    /\ s3_obj = None
    /\ channel_type = << >>
    /\ email_obj = FALSE
    /\ sms_obj = FALSE
    /\ apps = 0
    /\ remote_channels = [ a \in Apps |-> {} ]
    /\ s3 = [ f \in Folders |-> Absent ]
    /\ saved = Absent
    /\ hydrate = "no"
    /\ base_segment_id = None
    /\ email_dynamic_segment_id = None
    /\ sms_dynamic_segment_id = None
    /\ pc = "idle"
    /\ caller = "none"
    /\ job_id = 0
    /\ wait_till = DefaultWaitTill
    /\ time_out = 0
    /\ status = None
    /\ fetches = 0
    /\ sleeps = 0
    /\ failed_at = 0
    /\ seen = {}
    /\ result = "none"
    /\ op = "none"
    /\ outcome = "none"
    /\ jobs = 0
    /\ import_job_request = Absent
    /\ segments = << >>
    /\ job_segment = None
    /\ NoAudience
    /\ NoCampaign
    /\ NoRest

\* Runs of the program against one bucket: each run constructs a builder
\* for both channels, then saves, loads and writes application_details.json.
NextStore ==
    \/ \E b \in BucketNames, f \in {None, "dir"}, ids \in GivenIds,
          app \in {None, AppId(1)}, ex \in BOOLEAN :
          __init__(b, f, "ses", "role", << "EMAIL", "SMS" >>, ids, app,
                   NoGivenAudience, ex)
    \/ update_pinpoint_data_to_s3
    \/ \E d \in OtherDataJson : other_update_pinpoint_data_to_s3(d)
    \/ fetch_pinpoint_data_from_s3
    \/ \E d \in FileData : user_put_json_to_s3(d)
    \/ \E b \in BucketNames, f \in {None, "dir"} : s3_bucket_details(b, f)

SpecStore == InitStore /\ [][NextStore]_vars

\* The constructor with every combination of its arguments.
NextCtor ==
    \E b \in BucketNames, f \in {None, "dir"}, ses \in SesArns,
       role \in RoleArns, ch \in ChannelTypeArgs, ids \in GivenIds,
       app \in {None, AppId(1)}, ex \in BOOLEAN :
       __init__(b, f, ses, role, ch, ids, app, NoGivenAudience, ex)

SpecCtor == InitStore /\ [][NextCtor]_vars

----------------------------------------------------------------------------
\* The campaign

\* The builder's fields set by the constructor and the segment handlers.
objectVars == << built, application_id, s3_folder_path, s3_obj, channel_type,
                 email_obj, sms_obj, base_segment_id, email_dynamic_segment_id,
                 sms_dynamic_segment_id, s3_bucket >>

\* The applications of the remote and the stored record.
bucketVars == << apps, remote_channels, s3, saved, hydrate >>

\* Arguments of set_custom_message and create_campaign.
Bodies == { "hi", "bye" }
TemplateConfigs == { Absent, [ SMSTemplate |-> [ Name |-> "sms_template" ] ] }
GivenSegments == { None, "own_segment" }
CustomCampaignRequests == { [ Name |-> "Own Campaign", SegmentId |-> "own_segment" ] }

\* Email.set_custom_message with body and the defaults of its other arguments.
Email_set_custom_message(body) ==
    /\ pc = "idle" /\ built /\ email_obj
    /\ op' = "email_obj.set_custom_message"
    /\ custom_email_message' =
          [ EmailMessage |-> [ Body |-> body, FromAddress |-> None,
                               HtmlBody |-> None, Title |-> None ] ]
    /\ outcome' = "returned"
    /\ UNCHANGED << objectVars, bucketVars, callVars, restVars, audienceVars,
                    segment_id_for_campaign, email_custom_message,
                    sms_custom_message, custom_sms_message, campaigns,
                    write_campaign_request >>

\* Sms.set_custom_message with body and the defaults of its other arguments.
Sms_set_custom_message(body) ==
    /\ pc = "idle" /\ built /\ sms_obj
    /\ op' = "sms_obj.set_custom_message"
    /\ custom_sms_message' =
          [ SMSMessage |-> [ Body |-> body, MessageType |-> "TRANSACTIONAL",
                             SenderId |-> None ] ]
    /\ outcome' = "returned"
    /\ UNCHANGED << objectVars, bucketVars, callVars, restVars, audienceVars,
                    segment_id_for_campaign, email_custom_message,
                    custom_email_message, sms_custom_message, campaigns,
                    write_campaign_request >>

\* The if / elif chain that assigns self.segment_id_for_campaign, with the
\* both-channels test made after the SMS test.
ResolveSegment_SmsFirst(given) ==
    IF given # None THEN [ raised |-> FALSE, id |-> given ]
    ELSE IF "SMS" \in Range(channel_type)
    THEN [ raised |-> FALSE, id |-> sms_dynamic_segment_id ]
    ELSE IF "SMS" \in Range(channel_type) /\ "EMAIL" \in Range(channel_type)
    THEN [ raised |-> FALSE, id |-> base_segment_id ]
    ELSE IF "EMAIL" \in Range(channel_type)
    THEN [ raised |-> FALSE, id |-> email_dynamic_segment_id ]
    ELSE [ raised |-> TRUE, id |-> None ]

\* The if / elif chain that assigns self.segment_id_for_campaign.
ResolveSegment(given) ==
    IF given # None THEN [ raised |-> FALSE, id |-> given ]
    ELSE IF "SMS" \in Range(channel_type) /\ "EMAIL" \in Range(channel_type)
    THEN [ raised |-> FALSE, id |-> base_segment_id ]
    ELSE IF "SMS" \in Range(channel_type)
    THEN [ raised |-> FALSE, id |-> sms_dynamic_segment_id ]
    ELSE IF "EMAIL" \in Range(channel_type)
    THEN [ raised |-> FALSE, id |-> email_dynamic_segment_id ]
    ELSE [ raised |-> TRUE, id |-> None ]

\* dict.update
Update(d, e) ==
    [ k \in DOMAIN d \cup DOMAIN e |-> IF k \in DOMAIN e THEN e[k] ELSE d[k] ]

\* message_configuration: empty with a template, else the custom_message of
\* the sms object and then of the email object.
MessageConfiguration(template_config) ==
    IF template_config # Absent THEN << >>
    ELSE Update(Update(<< >>, IF "SMS" \in Range(channel_type)
                              THEN sms_custom_message ELSE << >>),
                IF "EMAIL" \in Range(channel_type)
                THEN email_custom_message ELSE << >>)

\* The WriteCampaignRequest built when the caller supplies none, with the
\* default description, name and schedule.
DefaultCampaignRequest(template_config, segment) ==
    [ Description |-> "Creating campaign", IsPaused |-> FALSE,
      MessageConfiguration |-> MessageConfiguration(template_config),
      SegmentId |-> segment, Name |-> "Campaign",
      Schedule |-> [ StartTime |-> "IMMEDIATE" ],
      TemplateConfiguration |-> template_config ]

\* How the custom_message tests of create_campaign end: the lookup on a
\* channel object the builder does not hold, the assert, or "pass".
MessageTests(template_config) ==
    IF template_config # Absent THEN "pass"
    ELSE IF "SMS" \in Range(channel_type) /\ ~sms_obj THEN "AttributeError"
    ELSE IF "SMS" \in Range(channel_type) /\ sms_custom_message = Absent
    THEN "AssertionError"
    ELSE IF "EMAIL" \in Range(channel_type) /\ ~email_obj THEN "AttributeError"
    ELSE IF "EMAIL" \in Range(channel_type) /\ email_custom_message = Absent
    THEN "AssertionError"
    ELSE "pass"

create_campaign(request, template_config, segment_id) ==
    /\ pc = "idle" /\ built
    /\ op' = "create_campaign"
    /\ UNCHANGED << objectVars, bucketVars, callVars, restVars, audienceVars,
                    email_custom_message, custom_email_message,
                    sms_custom_message, custom_sms_message >>
    /\ LET resolved == ResolveSegment(segment_id)
           tests == MessageTests(template_config)
       IN  IF resolved.raised
           THEN /\ outcome' = "Exception"
                /\ UNCHANGED << segment_id_for_campaign, campaigns,
                                write_campaign_request >>
           ELSE /\ segment_id_for_campaign' = resolved.id
                /\ IF tests # "pass"
                   THEN /\ outcome' = tests
                        /\ UNCHANGED << campaigns, write_campaign_request >>
                   ELSE /\ campaigns < MaxCampaigns
                        /\ campaigns' = campaigns + 1
                        /\ write_campaign_request' =
                              IF request # Absent THEN request
                              ELSE DefaultCampaignRequest(template_config,
                                                          resolved.id)
                        /\ outcome' = "returned"

\* Builders for application app1 with every channel list, new or existing,
\* their custom messages and their campaigns.
NextCampaign ==
    \/ \E ch \in ChannelTypeArgs \cup { << "PUSH" >> }, ids \in GivenIds, ex \in BOOLEAN :
          __init__(None, None, "ses", "role", ch, ids, AppId(1),
                   NoGivenAudience, ex)
    \/ \E body \in Bodies : Email_set_custom_message(body)
    \/ \E body \in Bodies : Sms_set_custom_message(body)
    \/ \E r \in {Absent} \cup CustomCampaignRequests, t \in TemplateConfigs,
          g \in GivenSegments :
          create_campaign(r, t, g)

SpecCampaign == InitStore /\ [][NextCampaign]_vars

----------------------------------------------------------------------------
\* The audience data

\* Field lists given as csv_file_fields; Absent is the default None.
FieldLists == { << "ChannelType", "Address" >>, << "Address" >> }
FieldArgs == { Absent } \cup FieldLists

\* Rows given as mappings and rows given as lists.
DictData ==
    { << [ ChannelType |-> "EMAIL", Address |-> "a@x" ],
         [ ChannelType |-> "SMS", Address |-> "+1" ] >>,
      << [ Address |-> "b@x" ] >> }
ListData ==
    { << << "EMAIL", "a@x" >> >>,
      << << "SMS", "+1" >>, << "SMS", "+2" >> >> }

\* csv_file_fields, email_data and sms_data given to the constructor.
GivenAudiences ==
    { NoGivenAudience,
      [ fields |-> << "ChannelType", "Address" >>,
        email |-> << << "EMAIL", "c@x" >> >>, sms |-> << << "SMS", "+3" >> >> ] }

\* The inner loop of __set_data: the values of one mapping in the order of
\* the csv_file_fields argument.
temp_lst(_data, csv_file_fields_arg) ==
    [ j \in 1..Len(csv_file_fields_arg) |-> _data[csv_file_fields_arg[j]] ]

\* __set_data: how it ends, the rows it returns and self.csv_file_fields
\* as it leaves it.
__set_data(shape, data, csv_file_fields_arg) ==
    IF shape = "dict"
    THEN IF csv_file_fields = Absent /\ csv_file_fields_arg = Absent
         THEN [ raised |-> "AssertionError", rows |-> Absent,
                fields |-> csv_file_fields ]
         ELSE LET stored == IF csv_file_fields = Absent
                            THEN csv_file_fields_arg ELSE csv_file_fields
              IN  IF csv_file_fields_arg = Absent
                  THEN [ raised |-> "TypeError", rows |-> Absent,
                         fields |-> stored ]
                  ELSE IF \E i \in 1..Len(data) :
                             ~(Range(csv_file_fields_arg) \subseteq DOMAIN data[i])
                  THEN [ raised |-> "KeyError", rows |-> Absent,
                         fields |-> stored ]
                  ELSE [ raised |-> "no",
                         rows |-> [ i \in 1..Len(data) |->
                                      temp_lst(data[i], csv_file_fields_arg) ],
                         fields |-> stored ]
    ELSE [ raised |-> "no", rows |-> data,
           fields |-> IF csv_file_fields_arg # Absent
                      THEN csv_file_fields_arg ELSE csv_file_fields ]

set_email_data(shape, data, csv_file_fields_arg) ==
    /\ pc = "idle" /\ built
    /\ op' = "set_email_data"
    /\ LET temp_result_list == __set_data(shape, data, csv_file_fields_arg)
       IN  /\ csv_file_fields' = temp_result_list.fields
           /\ IF temp_result_list.raised = "no"
              THEN email_data' = temp_result_list.rows /\ outcome' = "returned"
              ELSE email_data' = email_data
                   /\ outcome' = temp_result_list.raised
    /\ UNCHANGED << objectVars, bucketVars, callVars, restVars, campaignVars, sms_data,
                    csv_file, s3_csv >>

set_sms_data(shape, data, csv_file_fields_arg) ==
    /\ pc = "idle" /\ built
    /\ op' = "set_sms_data"
    /\ LET temp_result_list == __set_data(shape, data, csv_file_fields_arg)
       IN  /\ csv_file_fields' = temp_result_list.fields
           /\ IF temp_result_list.raised = "no"
              THEN sms_data' = temp_result_list.rows /\ outcome' = "returned"
              ELSE sms_data' = sms_data
                   /\ outcome' = temp_result_list.raised
    /\ UNCHANGED << objectVars, bucketVars, callVars, restVars, campaignVars, email_data,
                    csv_file, s3_csv >>

set_csv_file_headers(csv_file_fields_arg) ==
    /\ pc = "idle" /\ built
    /\ op' = "set_csv_file_headers"
    /\ csv_file_fields' = csv_file_fields_arg
    /\ outcome' = "returned"
    /\ UNCHANGED << objectVars, bucketVars, callVars, restVars, campaignVars, email_data,
                    sms_data, csv_file, s3_csv >>

\* A builder for both channels, constructed with or without audience data,
\* and every order of set_email_data, set_sms_data and set_csv_file_headers.
NextData ==
    \/ \E a \in GivenAudiences :
          __init__(None, None, "ses", "role", << "EMAIL", "SMS" >>,
                   [ base |-> None, email |-> None, sms |-> None ], AppId(1),
                   a, FALSE)
    \/ \E d \in DictData, f \in FieldArgs : set_email_data("dict", d, f)
    \/ \E d \in ListData, f \in FieldArgs : set_email_data("list", d, f)
    \/ \E d \in DictData, f \in FieldArgs : set_sms_data("dict", d, f)
    \/ \E d \in ListData, f \in FieldArgs : set_sms_data("list", d, f)
    \/ \E f \in FieldLists : set_csv_file_headers(f)

SpecData == InitStore /\ [][NextData]_vars

----------------------------------------------------------------------------
\* The csv file

\* s3_file_path arguments of create_csv; Absent is the default None.
S3FilePaths == { Absent, << "dir", "/", "f", ".txt" >> }

\* open(local_csv_file_name, mode): 'w' truncates, 'a' keeps the rows.
open(file, mode) == IF mode = "w" THEN << >> ELSE file

\* open_file_as with 'w' for the sms rows whatever the channels.
open_file_as_Write == "w"

\* open_file_as = 'a' if 'EMAIL' in self.channel_type else 'w'
open_file_as == IF "EMAIL" \in Range(channel_type) THEN "a" ELSE "w"

\* The local file after the `if 'EMAIL' in self.channel_type` block.
AfterEmailRows(fields) ==
    IF "EMAIL" \in Range(channel_type) /\ email_data # Absent
    THEN open(csv_file, "w") \o << fields >> \o email_data
    ELSE csv_file

\* The local file after the `if 'SMS' in self.channel_type` block.
AfterSmsRows(file, fields) ==
    IF "SMS" \in Range(channel_type) /\ sms_data # Absent
    THEN open(file, open_file_as)
            \o (IF open_file_as = "w" THEN << fields >> ELSE << >>)
            \o sms_data
    ELSE file

\* The first assert of create_csv that fails while the file is written.
WriteAsserts ==
    IF "EMAIL" \in Range(channel_type) /\ email_data = Absent THEN "email_data"
    ELSE IF "SMS" \in Range(channel_type) /\ sms_data = Absent THEN "sms_data"
    ELSE "pass"

\* s3_file_path if given, else application_id/pinpoint_details.csv.
UploadPath(s3_file_path) ==
    IF s3_file_path # Absent THEN s3_file_path
    ELSE << application_id, "/" >> \o file_name

\* How the `if upload_to_s3` block ends.
UploadOutcome(upload_to_s3, s3_file_path, file) ==
    IF ~upload_to_s3 THEN "returned"
    ELSE IF s3_bucket = None THEN "AssertionError"
    ELSE IF ~endswith(UploadPath(s3_file_path), ".csv") THEN "AssertionError"
    ELSE IF s3_obj = None THEN "AttributeError"
    ELSE IF file = Absent THEN "OSError"
    ELSE "uploaded"

create_csv(upload_to_s3, csv_file_fields_arg, s3_file_path) ==
    /\ pc = "idle" /\ built
    /\ op' = "create_csv"
    /\ UNCHANGED << objectVars, bucketVars, callVars, restVars, campaignVars, email_data,
                    sms_data >>
    /\ IF csv_file_fields = Absent /\ csv_file_fields_arg = Absent
       THEN /\ outcome' = "AssertionError"
            /\ UNCHANGED << csv_file_fields, csv_file, s3_csv >>
       ELSE LET fields == IF csv_file_fields_arg # Absent
                          THEN csv_file_fields_arg ELSE csv_file_fields
                emailed == AfterEmailRows(fields)
                written == AfterSmsRows(emailed, fields)
                upload == UploadOutcome(upload_to_s3, s3_file_path, written)
            IN  /\ csv_file_fields' = fields
                /\ IF WriteAsserts = "email_data"
                   THEN /\ outcome' = "AssertionError"
                        /\ UNCHANGED << csv_file, s3_csv >>
                   ELSE IF WriteAsserts = "sms_data"
                   THEN /\ outcome' = "AssertionError"
                        /\ csv_file' = emailed
                        /\ UNCHANGED s3_csv
                   ELSE /\ csv_file' = written
                        /\ IF upload = "uploaded"
                           THEN /\ s3_csv' = [ path |-> UploadPath(s3_file_path),
                                               rows |-> written ]
                                /\ outcome' = "returned"
                           ELSE /\ outcome' = upload
                                /\ UNCHANGED s3_csv

\* Builders for application app1 with each channel list, with or without a
\* bucket and audience data, rows given as lists, and create_csv.
NextCsv ==
    \/ \E b \in BucketNames, ch \in ChannelTypeArgs \ { << >> }, a \in GivenAudiences :
          __init__(b, None, "ses", "role", ch,
                   [ base |-> None, email |-> None, sms |-> None ], AppId(1),
                   a, FALSE)
    \/ \E d \in ListData, f \in FieldArgs : set_email_data("list", d, f)
    \/ \E d \in ListData : set_sms_data("list", d, Absent)
    \/ \E up \in BOOLEAN, f \in FieldArgs, path \in S3FilePaths :
          create_csv(up, f, path)

SpecCsv == InitStore /\ [][NextCsv]_vars

----------------------------------------------------------------------------
\* The applications of the account

\* The application of a second builder of the same process.
OtherApp == "app0"

\* The applications get_apps lists, in the order it lists them.
AllApps == << OtherApp >> \o [ n \in 1..MaxApps |-> AppId(n) ]
ExistingApps == ({OtherApp} \cup { AppId(n) : n \in 1..apps }) \ deleted_apps
get_apps == SelectSeq(AllApps, LAMBDA a : a \in ExistingApps)

\* Lists of ids a caller passes to delete_application.
IdLists == { << >>, << AppId(1) >>, << OtherApp >>, << OtherApp, AppId(1) >> }

\* The list delete_application works on: the argument, or without an
\* argument the default list object, which every call on every builder
\* shares.
DeleteArgument(given, ids) == IF given THEN ids ELSE default_application_id

\* `if not application_id: application_id.append(self.application_id)`
DeleteList(self_application_id, given, ids) ==
    IF DeleteArgument(given, ids) = << >>
    THEN << self_application_id >>
    ELSE DeleteArgument(given, ids)

\* delete_application of the builder of application self_application_id:
\* the append goes to the default list object when no argument is given; a
\* delete_app request for every id of the list.
delete_application_body(self_application_id, given, ids) ==
    /\ default_application_id' =
          IF given THEN default_application_id
          ELSE DeleteList(self_application_id, given, ids)
    /\ delete_app_requests' = DeleteList(self_application_id, given, ids)
    /\ deleted_apps' = deleted_apps
                         \cup Range(DeleteList(self_application_id, given, ids))

delete_application(given, ids) ==
    /\ built
    /\ pc = "idle"
    /\ op' = "delete_application"
    /\ outcome' = "returned"
    /\ delete_application_body(application_id, given, ids)
    /\ UNCHANGED << objectVars, bucketVars, callVars, audienceVars,
                    campaignVars, kpiVars, retval >>

\* delete_application called on the second builder.
other_delete_application(given, ids) ==
    /\ delete_application_body(OtherApp, given, ids)
    /\ UNCHANGED << objectVars, bucketVars, callVars, audienceVars,
                    campaignVars, kpiVars, retval, op, outcome >>

\* get_apps, then delete_application with the list of the ids it returned.
delete_all_apps ==
    /\ built
    /\ pc = "idle"
    /\ op' = "delete_all_apps"
    /\ outcome' = "returned"
    /\ delete_application_body(application_id, TRUE, get_apps)
    /\ UNCHANGED << objectVars, bucketVars, callVars, audienceVars,
                    campaignVars, kpiVars, retval >>

\* Two builders of one process, for app1 and app0, and their deletions;
\* the first builder is constructed again for a new or a given
\* application.
NextApps ==
    \/ delete_application(FALSE, << >>)
    \/ \E ids \in IdLists : delete_application(TRUE, ids)
    \/ other_delete_application(FALSE, << >>)
    \/ \E ids \in IdLists : other_delete_application(TRUE, ids)
    \/ delete_all_apps
    \/ \E app \in {None, AppId(1)}, ch \in {<< "EMAIL" >>, << "SMS" >>},
          ids \in GivenIds :
          __init__(None, None, "ses", "role", ch, ids, app, NoGivenAudience,
                   FALSE)

SpecApps == InitStore /\ [][NextApps]_vars

----------------------------------------------------------------------------
\* create_all_segments

\* create_all_segments up to and including the create_import_job of the
\* import it calls: with a url import_data_into_pinpoint(csv_file_s3_url),
\* else self.s3_bucket = s3_bucket_name and the import from the bucket.
create_all_segments(csv_file_s3_url, s3_bucket_name) ==
    /\ UNCHANGED storeVars
    /\ pc = "idle"
    /\ op' = "create_all_segments"
    /\ UNCHANGED << base_segment_id, email_dynamic_segment_id,
                    sms_dynamic_segment_id, segments >>
    /\ IF csv_file_s3_url = Absent /\ s3_bucket_name = None
       THEN /\ outcome' = "AssertionError"
            /\ FrameUnchanged
            /\ UNCHANGED << s3_bucket, pc, jobs, import_job_request, job_segment >>
       ELSE IF csv_file_s3_url # Absent
               /\ ~CsvAssertsPass(csv_file_s3_url, Absent, None)
       THEN /\ outcome' = "AssertionError"
            /\ FrameUnchanged
            /\ UNCHANGED << s3_bucket, pc, jobs, import_job_request, job_segment >>
       ELSE LET bucket == IF csv_file_s3_url # Absent THEN s3_bucket
                          ELSE s3_bucket_name
                url == CsvFileUrl(csv_file_s3_url, Absent, bucket)
            IN  /\ jobs < MaxJobs
                /\ Len(segments) + 3 <= MaxSegments
                /\ s3_bucket' = bucket
                /\ jobs' = jobs + 1
                /\ import_job_request' = DefaultImportRequest(url, FALSE)
                /\ job_segment' = None
                /\ outcome' = "running"
                /\ EnterPoll("create", jobs + 1, DefaultWaitTill)

\* The step of create_all_segments that makes the SMS request where the
\* EMAIL request belongs.
create_all_segments_email_SmsFirst ==
    /\ UNCHANGED storeVars
    /\ pc = "email"
    /\ Len(segments) < MaxSegments
    /\ segments' = << [ id |-> SegmentId(Len(segments) + 1), kind |-> "DYNAMIC",
                        source |-> DefaultWriteRequest("SMS").SourceId,
                        job |-> 0 ] >> \o segments
    /\ sms_dynamic_segment_id' = SegmentId(Len(segments) + 1)
    /\ pc' = "sms"
    /\ UNCHANGED << base_segment_id, email_dynamic_segment_id, s3_bucket, op,
                    outcome, jobs, import_job_request, job_segment >>
    /\ FrameUnchanged

\* self.create_dynamic_segment(channel='EMAIL') after the import returned;
\* the value it returns is dropped.
create_all_segments_email ==
    /\ UNCHANGED storeVars
    /\ pc = "email"
    /\ Len(segments) < MaxSegments
    /\ segments' = << [ id |-> SegmentId(Len(segments) + 1), kind |-> "DYNAMIC",
                        source |-> DefaultWriteRequest("EMAIL").SourceId,
                        job |-> 0 ] >> \o segments
    /\ email_dynamic_segment_id' = SegmentId(Len(segments) + 1)
    /\ pc' = "sms"
    /\ UNCHANGED << base_segment_id, sms_dynamic_segment_id, s3_bucket, op,
                    outcome, jobs, import_job_request, job_segment >>
    /\ FrameUnchanged

\* self.create_dynamic_segment(channel='SMS'), then the return.
create_all_segments_sms ==
    /\ UNCHANGED storeVars
    /\ pc = "sms"
    /\ Len(segments) < MaxSegments
    /\ segments' = << [ id |-> SegmentId(Len(segments) + 1), kind |-> "DYNAMIC",
                        source |-> DefaultWriteRequest("SMS").SourceId,
                        job |-> 0 ] >> \o segments
    /\ sms_dynamic_segment_id' = SegmentId(Len(segments) + 1)
    /\ pc' = "idle"
    /\ outcome' = "returned"
    /\ UNCHANGED << base_segment_id, email_dynamic_segment_id, s3_bucket, op,
                    jobs, import_job_request, job_segment >>
    /\ FrameUnchanged

\* create_all_segments with every combination of its arguments, for a
\* builder with or without a bucket, next to imports of another builder.
NextAll ==
    \/ \E u \in CsvUrls, b \in BucketNames : create_all_segments(u, b)
    \/ \E st \in SegStatuses : first_fetch(st)
    \/ \E st \in SegStatuses : poll_loop(st)
    \/ get_segments_lookup
    \/ create_all_segments_email
    \/ create_all_segments_sms
    \/ other_import_completes

SpecAll == InitImport /\ [][NextAll]_vars

----------------------------------------------------------------------------
\* create_dynamic_segment with every combination of its arguments, for
\* builders of application app1 constructed with or without given ids, next
\* to imports of another builder.
NextDerive ==
    \/ \E c \in Channels, r \in {Absent} \cup CustomWriteRequests,
          full \in BOOLEAN :
          create_dynamic_segment(c, r, full)
    \/ \E ids \in GivenIds :
          __init__(None, None, "ses", "role", << "EMAIL", "SMS" >>, ids,
                   AppId(1), NoGivenAudience, TRUE)
    \/ other_import_completes

SpecDerive == Init /\ [][NextDerive]_vars

----------------------------------------------------------------------------
\* The import with every combination of its arguments, each job ended at
\* its first or second fetch.
EndedStatuses == {"COMPLETED", "FAILED"}

NextValidate ==
    \/ \E u \in CsvUrls, p \in CsvPaths, b \in BucketNames,
          r \in {Absent} \cup CustomImportRequests, upd \in BOOLEAN :
          import_data_into_pinpoint(u, p, b, r, upd)
    \/ \E st \in EndedStatuses : first_fetch(st)
    \/ \E st \in EndedStatuses : poll_loop(st)
    \/ get_segments_lookup

SpecValidate == InitImport /\ [][NextValidate]_vars

----------------------------------------------------------------------------
\* The KPIs

\* A float is counted in thousandths; the values are multiples of 0.125,
\* which a float holds exactly, so that Decimal(data) is the value itself.
KpiValues == { 12000, 500, 875, 12125 }
GroupedBys == { "d1", "d2" }
KpiNames ==
    { "successful-deliveries-grouped-by-campaign",
      "unique-deliveries-grouped-by-date",
      "successful-delivery-rate-grouped-by-date",
      "email-open-rate-grouped-by-campaign",
      "unique-deliveries",
      "email-open-rate" }

\* Rows of a get_application_date_range_kpi response: the first GroupedBys
\* value and the first Values value of each.
KpiRow == [ GroupedBys : GroupedBys, Value : KpiValues ]
KpiRows == UNION { [ 1..n -> KpiRow ] : n \in 0..MaxRows }

\* len(str(data)) of a float: the digits of the whole part, the point and
\* the digits of the fraction, of which there is at least one.
RECURSIVE Digits(_)
Digits(k) == IF k < 10 THEN 1 ELSE 1 + Digits(k \div 10)
StrLen(data) ==
    Digits(data \div 1000) + 1
        + (IF data % 10 # 0 THEN 3 ELSE IF data % 100 # 0 THEN 2 ELSE 1)

\* round(Decimal(data)) and round(Decimal(data), 2): to the nearest, a tie
\* to the even neighbour.
RoundHalfEven(n, unit) ==
    LET q == n \div unit
        r == n % unit
    IN  IF 2 * r < unit THEN q * unit
        ELSE IF 2 * r > unit THEN (q + 1) * unit
        ELSE IF q % 2 = 0 THEN q * unit ELSE (q + 1) * unit

__get_rounded_value(data) ==
    IF StrLen(data) > 5 THEN RoundHalfEven(data, 10)
    ELSE RoundHalfEven(data, 1000)

\* self.get_campaign_name: the name the remote holds for the campaign.
get_campaign_name(campaign_id) == "Campaign " \o campaign_id

\* sum([...]) over the rows from the i-th on.
RECURSIVE SumRounded(_, _)
SumRounded(rows, i) ==
    IF i > Len(rows) THEN 0
    ELSE __get_rounded_value(rows[i].Value) + SumRounded(rows, i + 1)

\* The value of one row of a KPI grouped by date.
DateValue(kpi_name, data) ==
    IF kpi_name = "successful-delivery-rate-grouped-by-date"
    THEN __get_rounded_value(data.Value) * 100
    ELSE __get_rounded_value(data.Value)

\* The loop over the rows of a KPI grouped by date, from the i-th row on:
\* `kpi_value = {}` is its first statement, then the update with the row.
RECURSIVE DateLoop(_, _, _, _)
DateLoop(kpi_name, rows, i, kpi_value_so_far) ==
    IF i > Len(rows) THEN kpi_value_so_far
    ELSE DateLoop(kpi_name, rows, i + 1,
                  Update(<< >>, [ d \in {rows[i].GroupedBys} |->
                                     DateValue(kpi_name, rows[i]) ]))

\* The list built for email-open-rate-grouped-by-campaign.
CampaignList(rows) ==
    [ i \in 1..Len(rows) |->
        [ CampaignName |-> get_campaign_name(rows[i].GroupedBys),
          Value |-> __get_rounded_value(rows[i].Value * 100) ] ]

\* What get_kpi_value returns for the rows of the response: a number, a
\* mapping or a list.
KpiValue(kpi_name, rows) ==
    IF rows = << >> THEN [ number |-> 0 ]
    ELSE IF kpi_name = "successful-deliveries-grouped-by-campaign"
    THEN [ number |-> SumRounded(rows, 1) ]
    ELSE IF kpi_name \in { "unique-deliveries-grouped-by-date",
                           "successful-delivery-rate-grouped-by-date" }
    THEN [ mapping |-> DateLoop(kpi_name, rows, 1, 0) ]
    ELSE IF kpi_name = "email-open-rate-grouped-by-campaign"
    THEN [ list |-> CampaignList(rows) ]
    ELSE IF kpi_name = "unique-deliveries"
    THEN [ number |-> (__get_rounded_value(rows[1].Value * 100) \div 100000) * 1000 ]
    ELSE [ number |-> __get_rounded_value(rows[1].Value * 100) ]

get_kpi_value(kpi_name) ==
    /\ built
    /\ pc = "idle"
    /\ op' = "get_kpi_value"
    /\ outcome' = "returned"
    /\ kpi_value' = KpiValue(kpi_name, response_rows)
    /\ UNCHANGED << objectVars, bucketVars, callVars, audienceVars,
                    campaignVars, deleteVars, retval, response_rows >>

\* The remote has new rows for the KPIs of the application.
remote_kpi_rows(rows) ==
    /\ response_rows' = rows
    /\ UNCHANGED << objectVars, bucketVars, callVars, audienceVars,
                    campaignVars, deleteVars, retval, kpi_value, op, outcome >>

\* Every KPI name on every response of up to MaxRows rows.
NextKpi ==
    \/ \E rows \in KpiRows : remote_kpi_rows(rows)
    \/ \E kpi_name \in KpiNames : get_kpi_value(kpi_name)

SpecKpi == Init /\ [][NextKpi]_vars

----------------------------------------------------------------------------
\* Properties of the poll (Spec, FairSpec)

\* The poll has ended: is_segment_imported returned or raised.
PollEnded == result \in {"True", "ImportFailed", "TimedOut"}

\* C1: once a fetch of a poll has returned FAILED, the poll has raised the
\* import-failed error at that very fetch and has fetched nothing since.
C1_FailedEndsPoll ==
    failed_at # 0 => fetches = failed_at /\ result = "ImportFailed"

\* C2: with wait_till = 12 and IN_PROGRESS at every fetch, the poll raises
\* the timeout error after at most 3 get_import_job calls.
C2_TwelveSecondsThreeChecks ==
    (wait_till = 12 /\ seen = {"IN_PROGRESS"})
        => /\ fetches <= 3
           /\ fetches = 3 => result = "TimedOut"

\* C3: a fetch that returns COMPLETED, with no FAILED seen before it, ends
\* the poll with success, whatever time has elapsed.
C3_CompletedIsSuccess ==
    (status = "COMPLETED" /\ failed_at = 0) => result = "True"

\* C4: k non-terminal statuses followed by COMPLETED, with 5*k below the
\* timeout: the poll has returned success after k sleeps and k+1 fetches.
C4_SleepsBeforeSuccess ==
    (/\ status = "COMPLETED"
     /\ seen \subseteq NonTerminal \cup {"COMPLETED"}
     /\ SleepInterval * (fetches - 1) < wait_till)
        => /\ result = "True"
           /\ sleeps = fetches - 1
           /\ pc \notin {"fetch", "loop"}

C4_Witness ==
    /\ status = "COMPLETED"
    /\ seen = {"IN_PROGRESS", "COMPLETED"}
    /\ wait_till = DefaultWaitTill
    /\ fetches = 3
    /\ sleeps = 2
    /\ result = "True"

\* C5: every started call ends: the poll returns or raises, and both the
\* create-mode and the update-mode import come back to the caller.
C5_CallsTerminate == (pc # "idle") ~> (pc = "idle")

C5_Witness ==
    /\ pc = "idle"
    /\ op = "import_data_into_pinpoint"
    /\ caller = "update"
    /\ seen \subseteq NonTerminal
    /\ result = "TimedOut"

\* C6: when the poll returns or raises, the time it has slept is at most
\* wait_till.
C6_HardCeiling ==
    PollEnded => SleepInterval * sleeps <= wait_till

----------------------------------------------------------------------------
\* Properties of the segments (SpecSeg)

\* C7: while base_segment_id is absent no step creates a dynamic segment
\* or sets a dynamic segment id.
C7_DeriveNeedsBase ==
    [][ base_segment_id = None =>
          /\ (Len(segments') > Len(segments) => segments'[1].kind # "DYNAMIC")
          /\ email_dynamic_segment_id' = email_dynamic_segment_id
          /\ sms_dynamic_segment_id' = sms_dynamic_segment_id ]_vars

\* C8: after a create-mode import has returned, base_segment_id is the id
\* of the segment that this import's job created.
C8_BaseIsOwnSegment ==
    (/\ pc = "idle"
     /\ op = "import_data_into_pinpoint"
     /\ caller = "create"
     /\ outcome = "returned")
        => base_segment_id = job_segment

----------------------------------------------------------------------------
\* Properties of the stored record (SpecStore)

AllOrNone(rec) ==
    \/ \A k \in DOMAIN rec : rec[k] = None
    \/ \A k \in DOMAIN rec : rec[k] # None

\* C9: a load that follows a save of record R to the same folder, with no
\* other write in between, succeeds and leaves the three ids equal to R.
C9_SaveLoadRoundTrip ==
    (/\ op = "fetch_pinpoint_data_from_s3"
     /\ saved # Absent
     /\ saved.folder = s3_folder_path
     /\ AllOrNone(saved.rec))
        => /\ outcome = "returned"
           /\ data_json = saved.rec

\* C10: a constructor whose hydrating load finds no object completes, with
\* the three segment ids absent.
C10_MissingObjectIsNoPriorState ==
    (op = "__init__" /\ hydrate = "missing")
        => /\ built
           /\ outcome = "returned"
           /\ base_segment_id = None
           /\ email_dynamic_segment_id = None
           /\ sms_dynamic_segment_id = None

\* C19: when a builder saves to a path to which another builder saved
\* last, in either order, the stored object is then, in all three fields,
\* the record of the save that executed last.
C19_LastSaveWins ==
    [][ /\ (/\ update_pinpoint_data_to_s3
            /\ saved # Absent
            /\ saved.by = "other"
            /\ saved.folder = s3_folder_path)
              => loads(s3'[s3_folder_path]) = data_json
        /\ \A d \in OtherDataJson :
              (/\ other_update_pinpoint_data_to_s3(d)
               /\ saved # Absent
               /\ saved.by = "self"
               /\ saved.folder = s3_folder_path)
                 => loads(s3'[s3_folder_path]) = d ]_vars

----------------------------------------------------------------------------
\* Properties of the constructor (SpecCtor)

\* C20: a constructor for a new application that is given no role or an
\* empty channel list raises the assertion error and has issued no
\* create_app and no channel update.
C20_RejectedBeforeRemoteCalls ==
    [][ \A b \in BucketNames, f \in {None, "dir"}, ses \in SesArns,
           role \in RoleArns, ch \in ChannelTypeArgs, ids \in GivenIds,
           app \in {None, AppId(1)} :
          (/\ __init__(b, f, ses, role, ch, ids, app, NoGivenAudience, FALSE)
           /\ role = None \/ ch = << >>)
             => /\ outcome' = "AssertionError"
                /\ ~built'
                /\ apps' = apps
                /\ remote_channels' = remote_channels ]_vars

----------------------------------------------------------------------------
\* Properties of the campaign (SpecCampaign)

\* C11: create_campaign resolves the segment to the given id if one is
\* given, else to base_segment_id with EMAIL and SMS both active, to
\* email_dynamic_segment_id with only EMAIL, to sms_dynamic_segment_id with
\* only SMS, and the request it builds carries that id as SegmentId.
C11_SegmentResolution ==
    [][ \A r \in {Absent} \cup CustomCampaignRequests, t \in TemplateConfigs,
           g \in GivenSegments :
          LET email == "EMAIL" \in Range(channel_type)
              sms == "SMS" \in Range(channel_type)
              expected == IF g # None THEN g
                          ELSE IF email /\ sms THEN base_segment_id
                          ELSE IF email THEN email_dynamic_segment_id
                          ELSE sms_dynamic_segment_id
          IN  (create_campaign(r, t, g) /\ (g # None \/ email \/ sms))
                 => /\ segment_id_for_campaign' = expected
                    /\ (r = Absent /\ campaigns' # campaigns) =>
                          write_campaign_request'.SegmentId = expected ]_vars

C11_Witness ==
    /\ op = "create_campaign"
    /\ outcome = "returned"
    /\ channel_type = << "EMAIL", "SMS" >>
    /\ base_segment_id = SegmentId(1)
    /\ segment_id_for_campaign = base_segment_id
    /\ "Description" \in DOMAIN write_campaign_request
    /\ write_campaign_request.SegmentId = base_segment_id

\* C12: without a template, once set_custom_message has been called on the
\* channel object of every active channel, create_campaign returns and the
\* remote has received a request; the request it builds holds each active
\* channel's custom message in MessageConfiguration.
C12_CustomMessagesSubmitted ==
    [][ \A r \in {Absent} \cup CustomCampaignRequests, g \in GivenSegments :
          LET email == "EMAIL" \in Range(channel_type)
              sms == "SMS" \in Range(channel_type)
          IN  (/\ create_campaign(r, Absent, g)
               /\ email \/ sms
               /\ email => email_obj /\ custom_email_message # Absent
               /\ sms => sms_obj /\ custom_sms_message # Absent)
                 => /\ outcome' = "returned"
                    /\ campaigns' = campaigns + 1
                    /\ (r = Absent /\ email) =>
                          write_campaign_request'.MessageConfiguration.EmailMessage
                              = custom_email_message.EmailMessage
                    /\ (r = Absent /\ sms) =>
                          write_campaign_request'.MessageConfiguration.SMSMessage
                              = custom_sms_message.SMSMessage ]_vars

\* C29: a constructed builder holds email_obj if EMAIL is in channel_type
\* and sms_obj if SMS is, also when channel_type was discovered through
\* get_channels, and create_campaign never fails on a missing channel object.
C29_ChannelObjectsPresent ==
    built => /\ "EMAIL" \in Range(channel_type) => email_obj
             /\ "SMS" \in Range(channel_type) => sms_obj
             /\ op = "create_campaign" => outcome # "AttributeError"

----------------------------------------------------------------------------
\* Properties of the audience data (SpecData)

\* The field list a call declares: the one passed now, else the stored one.
Declared(f) == IF f # Absent THEN f ELSE csv_file_fields

\* A row of values zipped with the field list F.
Rezip(F, row) ==
    [ k \in Range(F) |-> row[CHOOSE j \in 1..Len(F) : F[j] = k] ]

\* The rows of values reconstruct the mappings d under the field list F.
RoundTrip(F, rows, d) ==
    /\ Len(rows) = Len(d)
    /\ \A i \in 1..Len(d) : Len(rows[i]) = Len(F) /\ Rezip(F, rows[i]) = d[i]

\* C13: set_email_data / set_sms_data with mappings whose keys are exactly
\* the declared non-empty field list F, passed in the call or stored
\* before it, returns and stores rows that re-zipped with F are the mappings.
C13_MappingRoundTrip ==
    [][ \A d \in DictData, f \in FieldArgs :
          LET F == Declared(f)
              exact == F # Absent /\ \A i \in 1..Len(d) : DOMAIN d[i] = Range(F)
          IN  /\ (set_email_data("dict", d, f) /\ exact)
                    => outcome' = "returned" /\ RoundTrip(F, email_data', d)
              /\ (set_sms_data("dict", d, f) /\ exact)
                    => outcome' = "returned" /\ RoundTrip(F, sms_data', d) ]_vars

\* C14: every stored row of email_data and of sms_data has as many values
\* as the stored field list has names.
C14_RowsMatchFields ==
    /\ \A i \in 1..Len(email_data) : Len(email_data[i]) = Len(csv_file_fields)
    /\ \A i \in 1..Len(sms_data) : Len(sms_data[i]) = Len(csv_file_fields)

\* C15: set_email_data / set_sms_data with mappings of which one lacks a
\* key of the declared field list raises the missing-key error and leaves
\* the stored rows as they were.
C15_MissingKeyRejected ==
    [][ \A d \in DictData, f \in FieldArgs :
          LET F == Declared(f)
              lacking == F # Absent
                           /\ \E i \in 1..Len(d) : ~(Range(F) \subseteq DOMAIN d[i])
          IN  /\ (set_email_data("dict", d, f) /\ lacking)
                    => outcome' = "KeyError" /\ email_data' = email_data
              /\ (set_sms_data("dict", d, f) /\ lacking)
                    => outcome' = "KeyError" /\ sms_data' = sms_data ]_vars

\* C27: a set_email_data / set_sms_data call with mappings that raises
\* leaves csv_file_fields, email_data and sms_data as they were before it.
C27_FailedCallChangesNothing ==
    [][ \A d \in DictData, f \in FieldArgs :
          (/\ set_email_data("dict", d, f) \/ set_sms_data("dict", d, f)
           /\ outcome' # "returned")
             => /\ csv_file_fields' = csv_file_fields
                /\ email_data' = email_data
                /\ sms_data' = sms_data ]_vars

----------------------------------------------------------------------------
\* Properties of the csv file (SpecCsv)

\* C16: after create_csv has returned, the file is the stored field list,
\* once, then the email rows if EMAIL is active, then the sms rows if SMS
\* is active, and nothing else, whatever the file held before the call.
C16_HeaderOnceThenRows ==
    (op = "create_csv" /\ outcome = "returned")
        => csv_file = << csv_file_fields >>
                        \o (IF "EMAIL" \in Range(channel_type)
                            THEN email_data ELSE << >>)
                        \o (IF "SMS" \in Range(channel_type)
                            THEN sms_data ELSE << >>)

\* Both channels, and an earlier create_csv call wrote other rows to the
\* same file.
C16_Witness ==
    /\ op = "create_csv"
    /\ outcome = "returned"
    /\ channel_type = << "EMAIL", "SMS" >>
    /\ s3_csv # Absent
    /\ Len(s3_csv.rows) > Len(csv_file)
    /\ csv_file = << csv_file_fields >> \o email_data \o sms_data
    /\ Len(email_data) > 0
    /\ Len(sms_data) > 0

----------------------------------------------------------------------------
\* Properties of the import request (SpecImport)

\* C17: the request import_data_into_pinpoint builds and submits carries
\* DefineSegment, Format CSV, RegisterEndpoints, the role and the csv
\* location; in update mode SegmentId = base_segment_id and no SegmentName,
\* otherwise SegmentName and no SegmentId.
C17_ImportRequestShape ==
    [][ (pc = "idle" /\ jobs' # jobs
           /\ import_job_request' \notin CustomImportRequests) =>
        \A u \in CsvUrls, p \in CsvPaths, b \in BucketNames, upd \in BOOLEAN :
          import_data_into_pinpoint(u, p, b, Absent, upd)
             => LET r == import_job_request'
                IN  /\ r.DefineSegment = TRUE
                    /\ r.Format = "CSV"
                    /\ r.RegisterEndpoints = TRUE
                    /\ r.RoleArn = pinpoint_acc_arn
                    /\ startswith(r.S3Url, "s3://") /\ endswith(r.S3Url, ".csv")
                    /\ u # Absent => r.S3Url = u
                    /\ upd => /\ "SegmentName" \notin DOMAIN r
                              /\ "SegmentId" \in DOMAIN r
                              /\ r.SegmentId = base_segment_id
                              /\ base_segment_id # None
                    /\ ~upd => /\ "SegmentId" \notin DOMAIN r
                               /\ "SegmentName" \in DOMAIN r ]_vars

\* An update-mode request for a csv path of the builder's bucket.
C17_Witness ==
    /\ caller = "update"
    /\ import_job_request # Absent
    /\ "RegisterEndpoints" \in DOMAIN import_job_request
    /\ "SegmentId" \in DOMAIN import_job_request
    /\ import_job_request.SegmentId = base_segment_id
    /\ import_job_request.S3Url = << "s3://", "bk", "/", "dir", "/", "f", ".csv" >>

\* C18: a call of import_data_into_pinpoint that starts polling has
\* submitted one job, with an id no earlier job has; the steps of its poll
\* submit nothing and fetch the job with that id.
C18_OneSubmissionPerCall ==
    [][ /\ (pc = "idle" /\ pc' # "idle")
             => jobs' = jobs + 1 /\ job_id' = jobs' /\ job_id' > job_id
        /\ (pc = "idle" /\ pc' = "idle") => jobs' = jobs
        /\ pc # "idle"
             => /\ jobs' = jobs
                /\ import_job_request' = import_job_request
                /\ job_id' = job_id
                /\ job_id = jobs ]_vars

\* The second import polls its own job for the third time.
C18_Witness ==
    /\ pc = "loop"
    /\ jobs = 2
    /\ job_id = 2
    /\ fetches = 3

----------------------------------------------------------------------------
\* Properties of the deletion of applications (SpecApps)

\* C21: a delete_application call without an id issues one delete_app
\* request, for the application of the builder it is called on, and a call
\* with ids issues the requests for exactly these ids.
C21_DeletesOwnApplication ==
    [][ /\ delete_application(FALSE, << >>)
            => delete_app_requests' = << application_id >>
        /\ other_delete_application(FALSE, << >>)
            => delete_app_requests' = << OtherApp >>
        /\ \A ids \in IdLists \ { << >> } :
             (delete_application(TRUE, ids) \/ other_delete_application(TRUE, ids))
                => delete_app_requests' = ids ]_vars

----------------------------------------------------------------------------
\* Properties of the derived segments (SpecSeg, SpecDerive)

\* C22: create_dynamic_segment(channel) with its default arguments returns
\* the id of the create_segment response, the id it records for the channel.
C22_ReturnsSegmentId ==
    [][ \A c \in {"EMAIL", "SMS"} :
          create_dynamic_segment(c, Absent, FALSE)
             => /\ retval' = segments'[1].id
                /\ retval' = IF c = "EMAIL" THEN email_dynamic_segment_id'
                             ELSE sms_dynamic_segment_id' ]_vars

\* C26: create_dynamic_segment for EMAIL sets email_dynamic_segment_id, and
\* for SMS sms_dynamic_segment_id, to the id of the create_segment response,
\* with the default or a caller-supplied request, and changes no other field
\* of the builder; for another channel it raises with no request and no
\* change.
C26_OnlyTheChannelsId ==
    [][ (pc = "idle" /\ op' = "create_dynamic_segment")
          => \A c \in Channels, r \in {Absent} \cup CustomWriteRequests,
                full \in BOOLEAN :
               create_dynamic_segment(c, r, full)
                  => /\ base_segment_id' = base_segment_id
                     /\ s3_bucket' = s3_bucket
                     /\ keptVars' = keptVars
                     /\ c = "EMAIL"
                          => /\ Len(segments') = Len(segments) + 1
                             /\ email_dynamic_segment_id' = segments'[1].id
                             /\ sms_dynamic_segment_id' = sms_dynamic_segment_id
                     /\ c = "SMS"
                          => /\ Len(segments') = Len(segments) + 1
                             /\ sms_dynamic_segment_id' = segments'[1].id
                             /\ email_dynamic_segment_id' = email_dynamic_segment_id
                     /\ c \notin {"EMAIL", "SMS"}
                          => /\ outcome' = "AssertionError"
                             /\ segments' = segments
                             /\ email_dynamic_segment_id' = email_dynamic_segment_id
                             /\ sms_dynamic_segment_id' = sms_dynamic_segment_id ]_vars

\* The EMAIL segment was derived for a builder constructed with given ids:
\* it has the new id for EMAIL and still the given base and SMS ids.
C26_Witness ==
    /\ op = "create_dynamic_segment"
    /\ outcome = "returned"
    /\ Len(segments) = 1
    /\ email_dynamic_segment_id = segments[1].id
    /\ base_segment_id = SegmentId(1)
    /\ sms_dynamic_segment_id = SegmentId(3)

----------------------------------------------------------------------------
\* Properties of the import (SpecImport)

\* C23: a poll of an import that ends with FAILED or with the timeout ends
\* the import with the exception, without a get_segments lookup and without
\* a new job; no step of the import before its lookup changes
\* base_segment_id, email_dynamic_segment_id or sms_dynamic_segment_id.
C23_FailedImportAborts ==
    [][ /\ pc # "lookup"
            => /\ base_segment_id' = base_segment_id
               /\ email_dynamic_segment_id' = email_dynamic_segment_id
               /\ sms_dynamic_segment_id' = sms_dynamic_segment_id
        /\ (/\ pc \in {"fetch", "loop"}
            /\ caller \in {"create", "update"}
            /\ result' \in {"ImportFailed", "TimedOut"})
            => /\ pc' = "idle"
               /\ outcome' = "Exception"
               /\ jobs' = jobs ]_vars

\* An update-mode import has failed and the builder still has its base
\* segment.
C23_Witness ==
    /\ op = "import_data_into_pinpoint"
    /\ caller = "update"
    /\ result = "ImportFailed"
    /\ outcome = "Exception"
    /\ pc = "idle"
    /\ base_segment_id # None

\* C24: an import changes base_segment_id only in its get_segments lookup,
\* which is made only in create mode after the poll has seen COMPLETED, and
\* sets it to the id of the first item; an import without SegmentName in
\* its request makes no lookup and leaves base_segment_id as it is.
C24_BaseSetOnlyByCreateImport ==
    [][ /\ base_segment_id' # base_segment_id => pc = "lookup"
        /\ pc = "lookup"
            => /\ caller = "create"
               /\ status = "COMPLETED"
               /\ result = "True"
               /\ base_segment_id' = segments[1].id
        /\ (caller = "update" /\ pc \in {"fetch", "loop"})
            => /\ pc' # "lookup"
               /\ base_segment_id' = base_segment_id ]_vars

\* A second create-mode import has set base_segment_id to the id of its
\* segment, the first item of a list of two.
C24_Witness ==
    /\ op = "import_data_into_pinpoint"
    /\ caller = "create"
    /\ outcome = "returned"
    /\ pc = "idle"
    /\ Len(segments) = 2
    /\ base_segment_id = segments[1].id

----------------------------------------------------------------------------
\* Properties of create_all_segments (SpecAll)

\* C25: create_all_segments issues its create_segment requests only after
\* the poll of its import has seen COMPLETED and the lookup has set
\* base_segment_id, the EMAIL request before the SMS request, each naming
\* base_segment_id as its source; an import that fails or times out ends
\* the call with no create_segment request.
C25_DerivedAfterImport ==
    [][ /\ (Len(segments') > Len(segments) /\ segments'[1].kind = "DYNAMIC")
            => /\ pc \in {"email", "sms"}
               /\ status = "COMPLETED"
               /\ result = "True"
               /\ base_segment_id # None
               /\ base_segment_id' = base_segment_id
               /\ segments'[1].source = base_segment_id
               /\ pc = "email"
                    => /\ email_dynamic_segment_id' = segments'[1].id
                       /\ sms_dynamic_segment_id' = sms_dynamic_segment_id
               /\ pc = "sms"
                    => /\ sms_dynamic_segment_id' = segments'[1].id
                       /\ email_dynamic_segment_id' = email_dynamic_segment_id
        /\ (pc' = "email" /\ pc # "email")
            => pc = "lookup" /\ base_segment_id' = segments[1].id
        /\ (pc' = "sms" /\ pc # "sms") => pc = "email"
        /\ (/\ op = "create_all_segments"
            /\ pc \in {"fetch", "loop"}
            /\ result' \in {"ImportFailed", "TimedOut"})
            => pc' = "idle" /\ outcome' = "Exception" ]_vars

\* create_all_segments has returned: the import segment and the two
\* dynamic segments exist, the EMAIL segment older than the SMS segment.
C25_Witness ==
    /\ op = "create_all_segments"
    /\ outcome = "returned"
    /\ Len(segments) = 3
    /\ email_dynamic_segment_id = segments[2].id
    /\ sms_dynamic_segment_id = segments[1].id
    /\ segments[1].source = base_segment_id
    /\ segments[2].source = base_segment_id

----------------------------------------------------------------------------
\* Properties of the import's validation (SpecValidate)

\* The url is given and does not start with s3:// and end with .csv.
BadUrl(u) == u # Absent /\ ~(startswith(u, "s3://") /\ endswith(u, ".csv"))

\* The path is given and does not end with .csv.
BadPath(p) == p # Absent /\ ~endswith(p, ".csv")

\* The call has failed before create_import_job.
Rejected ==
    /\ outcome' = "AssertionError"
    /\ pc' = "idle"
    /\ jobs' = jobs
    /\ fetches' = fetches
    /\ base_segment_id' = base_segment_id

\* C28 as stated: a call with no bucket and no url, with a url that does
\* not start with s3:// and end with .csv, with a path that does not end
\* with .csv, or in update mode without base_segment_id fails before
\* create_import_job and any poll, base_segment_id unchanged.
C28_Original ==
    [][ (pc = "idle" /\ op' = "import_data_into_pinpoint")
          => \A u \in CsvUrls, p \in CsvPaths, b \in BucketNames,
                r \in {Absent} \cup CustomImportRequests, upd \in BOOLEAN :
               (/\ \/ s3_bucket = None /\ b = None /\ u = Absent
                   \/ BadUrl(u)
                   \/ BadPath(p)
                   \/ upd /\ base_segment_id = None
                /\ import_data_into_pinpoint(u, p, b, r, upd))
                  => Rejected ]_vars

\* C28: a call with no bucket and no url, with a url that does not start
\* with s3:// and end with .csv, with no url and a path that does not end
\* with .csv, or in update mode with no caller-supplied request and no
\* base_segment_id fails before create_import_job and any poll,
\* base_segment_id unchanged.
C28_ValidatesBeforeSubmitting ==
    [][ (pc = "idle" /\ op' = "import_data_into_pinpoint")
          => \A u \in CsvUrls, p \in CsvPaths, b \in BucketNames,
                r \in {Absent} \cup CustomImportRequests, upd \in BOOLEAN :
               (/\ \/ s3_bucket = None /\ b = None /\ u = Absent
                   \/ BadUrl(u)
                   \/ u = Absent /\ BadPath(p)
                   \/ upd /\ r = Absent /\ base_segment_id = None
                /\ import_data_into_pinpoint(u, p, b, r, upd))
                  => Rejected ]_vars

\* A call was rejected after an earlier import had set base_segment_id.
C28_Witness ==
    /\ op = "import_data_into_pinpoint"
    /\ outcome = "AssertionError"
    /\ pc = "idle"
    /\ jobs = 1
    /\ base_segment_id # None

----------------------------------------------------------------------------
\* Properties of the KPIs (SpecKpi)

\* C30: for the two KPIs grouped by date get_kpi_value returns 0 when the
\* response has no rows, else a mapping with one entry for every date of
\* the rows, each date mapped to the value of a row of that date.
C30_OneEntryPerDate ==
    [][ \A kpi_name \in { "unique-deliveries-grouped-by-date",
                          "successful-delivery-rate-grouped-by-date" } :
          get_kpi_value(kpi_name)
             => IF response_rows = << >>
                THEN kpi_value' = [ number |-> 0 ]
                ELSE /\ DOMAIN kpi_value' = {"mapping"}
                     /\ DOMAIN kpi_value'.mapping
                          = { response_rows[i].GroupedBys :
                                i \in 1..Len(response_rows) }
                     /\ \A d \in DOMAIN kpi_value'.mapping :
                          \E i \in 1..Len(response_rows) :
                             /\ response_rows[i].GroupedBys = d
                             /\ kpi_value'.mapping[d]
                                  = DateValue(kpi_name, response_rows[i]) ]_vars

====
